---- MODULE Spec2Model ----
(***************************************************************************)
(* Runtime language engine of go-i18n (package i18n): option-driven        *)
(* initialisation, load / use / switch of the active language, message     *)
(* resolution with default-text fallback, and the switch-callback          *)
(* registry.  The model follows the latest revision of the module          *)
(* (src/i18n/i18n_test.go, lines 12-629).                                  *)
(*                                                                         *)
(* The message bundle and the localizer belong to the external library     *)
(* github.com/nicksnyder/go-i18n/v2; they are modelled by what the calls   *)
(* the module makes on them do (NewBundle, LoadMessageFile /               *)
(* ParseMessageFileBytes, NewLocalizer, Localizer.Localize).  Template     *)
(* data and plural counts are passed through by the module unchanged and   *)
(* are not modelled: every message is a plain text.                        *)
(***************************************************************************)
EXTENDS Integers, Sequences, FiniteSets, TLC

\* Bound of the model: the registry holds at most MaxEntries entries.
MaxEntries == 3

\* Bound of the model: an option list holds at most MaxOptions options.
MaxOptions == 3

\* Bound of the model: InitI18nWithConfig is called while Languages stays
\* within MaxLanguages descriptors.
MaxLanguages == 4

\* Bound of the model: a pattern matches at most MaxFiles files.
MaxFiles == 2

\* The width in bits of currentCallbackDataId: a uint32 in the program,
\* narrowed here so that the counter (atomic.AddUint32) can wrap around.
IdBits == 2
UINT32_MOD == 2^IdBits

\* The nil pointer / nil func value.
NIL == "nil"

\* The nil *Lang, the nil *Bundle and the nil *Localizer.
NilLang == [file |-> NIL, origin |-> NIL]
NilBundle == [defaultLanguage |-> NIL, tags |-> <<>>, messages |-> {}]
NilLocalizer == [tag |-> NIL, current |-> FALSE, bundle |-> NilBundle]

\* The nil *CallbackData.
NoData ==
    [Callback |-> NIL, CallbackId |-> 0, notOrigin |-> FALSE,
     defaultLocalized |-> "", id |-> ""]

\* The threads that run AddSwitchCallback beside the caller's thread, and a
\* thread that has not started.
Threads == {"t1", "t2"}
Idle == [pc |-> "idle", data |-> NoData, origin |-> NIL]

\* No discovery call has returned.
NoFound == [op |-> "none", err |-> FALSE, langs |-> <<>>]

-----------------------------------------------------------------------------
(* Package files on disk (or in memory).  Each has a label line             *)
(* `# [i18n] <TAG> <NAME>` and a body.  en.lang is labelled en and zh.lang  *)
(* zh-Hans; alt.en.lang is a second package labelled en; the body of        *)
(* bad.lang does not decode.  Message texts are opaque tokens: "NiHao"      *)
(* stands for the Chinese greeting.                                         *)

Files == {"en.lang", "zh.lang", "alt.en.lang", "bad.lang"}

Ids == {"greeting", "farewell", "missing.key"}

\* Lang.Tag: the first tag parsed from the label of the file.
LabelTag(f) ==
    CASE f = "en.lang"     -> "en"
      [] f = "zh.lang"     -> "zh-Hans"
      [] f = "alt.en.lang" -> "en"
      [] f = "bad.lang"    -> "zh-Hans"

\* The tag the bundle files a package under: it is taken from the file
\* name (the part before the format suffix), not from the label.
FileTag(f) ==
    CASE f = "en.lang"     -> "en"
      [] f = "zh.lang"     -> "zh"
      [] f = "alt.en.lang" -> "en"
      [] f = "bad.lang"    -> "bad"

\* Whether the registered unmarshal function decodes the body.
Decodable(f) == f # "bad.lang"

\* The messages of the body, as <<id, text>> pairs.
Body(f) ==
    CASE f = "en.lang"     -> {<<"greeting", "Hello">>, <<"farewell", "Bye">>}
      [] f = "zh.lang"     -> {<<"greeting", "NiHao">>}
      [] f = "alt.en.lang" -> {<<"greeting", "Hi">>}
      [] f = "bad.lang"    -> {}

\* A *Lang value: the package it describes and the allocation it comes
\* from: "listed" (built by the discovery of the latest initialisation, an
\* element of Languages), "stale" (built by the discovery of an earlier
\* initialisation) or "caller" (built by the caller, e.g. with
\* ReadLangFromBytes).  Two *Lang are the same pointer iff both agree.
LangObj(f, o) == [file |-> f, origin |-> o]

\* The lang argument of the initialisation: nil, or a *Lang with the tag
\* of English or SimplifiedChinese.
RequestedLangs == {NIL, "en", "zh-Hans"}

\* What package discovery may return: an error, or a list of packages.
DiscoveryLists ==
    { <<>>,
      <<"en.lang", "zh.lang">>,
      <<"alt.en.lang", "en.lang", "zh.lang">>,
      <<"bad.lang", "zh.lang">> }

\* The packages a caller builds descriptors for itself (ReadLangFromBytes).
CallerFiles == {"alt.en.lang", "bad.lang"}

\* The arguments of the Localize calls: default text and message id.
LocalizeArgs == {<<"fallback", "greeting">>, <<"fallback", "missing.key">>}

-----------------------------------------------------------------------------
VARIABLES
    Localizer,              \* NilLocalizer, or its tag and its bundle: the
                            \* current one, or the value of an earlier one
    Languages,              \* sequence of *Lang
    Language,               \* NilLang or *Lang
    DefaultLang,            \* NIL or tag
    logErrorFunc,           \* NIL, "Fatalf" (log.Fatalf) or "custom"
    bundle,                 \* NilBundle or the current *Bundle
    callbackDataMap,        \* registry id -> *CallbackData
    currentCallbackDataId,  \* uint32 counter
    pc,                     \* "idle", or "notify" inside SwitchLanguage's loop
    switchLang,             \* the argument of the running SwitchLanguage
    startKeys,              \* registry ids present when its loop started
    pending,                \* registry ids the loop still produces
    calls,                  \* callback invocations of the running SwitchLanguage
    ret,                    \* what the last call returned
    crashed,                \* the process was terminated (os.Exit or panic)
    inited,                 \* some InitI18nWithOptions call has returned nil
    goroutines,             \* thread -> its position in AddSwitchCallback
    doing,                  \* the entry of the AddSwitchCallbackDo call that
                            \* has started its goroutine, or NoData
    ran,                    \* callbacks AddSwitchCallbackDo has invoked
    options,                \* the options of the InitI18nWithOptions call
    handed,                 \* the pattern the last initialisation handed
                            \* to package discovery
    matched,                \* the files the pattern matches, in glob order
    found                   \* what the last discovery call returned

vars == <<Localizer, Languages, Language, DefaultLang, logErrorFunc, bundle,
          callbackDataMap, currentCallbackDataId, pc, switchLang,
          startKeys, pending, calls, ret, crashed, inited,
          goroutines, doing, ran, options, handed, matched, found>>

engine == <<Localizer, Languages, Language, DefaultLang, logErrorFunc, bundle>>
registry == <<callbackDataMap, currentCallbackDataId>>
loop == <<pc, switchLang, startKeys, pending, calls>>
async == <<goroutines, doing, ran>>
setup == <<options, handed>>
scan == <<matched, found>>

NoRet == [op |-> "none", err |-> FALSE, val |-> "", logged |-> FALSE]

Init ==
    /\ Localizer = NilLocalizer
    /\ Languages = <<>>
    /\ Language = NilLang
    /\ DefaultLang = NIL
    /\ logErrorFunc = NIL
    /\ bundle = NilBundle
    /\ callbackDataMap = [k \in {} |-> NIL]
    /\ currentCallbackDataId = 0
    /\ pc = "idle"
    /\ switchLang = NilLang
    /\ startKeys = {}
    /\ pending = {}
    /\ calls = <<>>
    /\ ret = NoRet
    /\ crashed = FALSE
    /\ inited = FALSE
    /\ goroutines = [t \in Threads |-> Idle]
    /\ doing = NoData
    /\ ran = <<>>
    /\ options = <<>>
    /\ handed = NIL
    /\ matched = <<>>
    /\ found = NoFound

-----------------------------------------------------------------------------
(* The message bundle (goI18n.Bundle) and the localizer.                    *)

\* goI18n.NewBundle(tag): the default language is its first tag.
NewBundle(tag) == [defaultLanguage |-> tag, tags |-> <<tag>>, messages |-> {}]

SeqRange(s) == {s[i] : i \in 1..Len(s)}

\* Bundle.AddMessages: the messages are filed under the tag, a message with
\* the id of an older one replaces it, the others stay.
AddMessages(b, tag, body) ==
    [b EXCEPT
       !.tags = IF tag \in SeqRange(@) THEN @ ELSE Append(@, tag),
       !.messages = {m \in @ : ~(m[1] = tag /\ \E p \in body : p[1] = m[2])}
                    \cup {<<tag, p[1], p[2]>> : p \in body}]

HasMessage(b, tag, id) == \E m \in b.messages : m[1] = tag /\ m[2] = id

MessageText(b, tag, id) ==
    (CHOOSE m \in b.messages : m[1] = tag /\ m[2] = id)[3]

\* Two tags that name the same language once script and region are filled
\* in: zh is zh-Hans.
SameMaximized(a, b) == a = b \/ {a, b} = {"zh", "zh-Hans"}

\* The bundle's matcher (language.NewMatcher(bundle.tags)) for one wanted
\* tag: the tag itself when the bundle has it, otherwise the first tag of
\* the bundle that names the same language, otherwise the default language
\* (index 0 of the bundle's tags).
MatchTag(b, tag) ==
    LET M == {i \in 1..Len(b.tags) : SameMaximized(tag, b.tags[i])}
    IN  IF tag \in SeqRange(b.tags) THEN tag
        ELSE IF M = {} THEN b.tags[1]
        ELSE b.tags[CHOOSE i \in M : \A j \in M : i <= j]

\* The bundle a localizer resolves against.
LocalizerBundle(loc) == IF loc.current THEN bundle ELSE loc.bundle

\* Localizer.Localize with a DefaultMessage that has an id and no text:
\* the template of the matched tag; failing that an error, with the text of
\* the default language when it has the message.
LocalizerLocalize(loc, id) ==
    LET b   == LocalizerBundle(loc)
        tag == MatchTag(b, loc.tag)
    IN  IF HasMessage(b, tag, id)
        THEN [text |-> MessageText(b, tag, id), err |-> FALSE]
        ELSE IF tag # b.defaultLanguage /\ HasMessage(b, b.defaultLanguage, id)
        THEN [text |-> MessageText(b, b.defaultLanguage, id), err |-> TRUE]
        ELSE [text |-> "", err |-> TRUE]

-----------------------------------------------------------------------------
(* Logging.  logErrorFunc is nil before the first initialisation (calling   *)
(* it panics), log.Fatalf by default (it exits the process) or the sink of  *)
(* the LogErrorFunc option (it returns).                                    *)

LogErrorReturns(sink) == sink = "custom"

-----------------------------------------------------------------------------
(* LoadLanguage, UseLanguage, Localize as functions of the state.           *)

\* A load that also rejects a package filed under another tag than the
\* tag of its label.
LoadLanguageErr_TagMismatch(lang) ==
    ~Decodable(lang.file) \/ FileTag(lang.file) # LabelTag(lang.file)

\* LoadLanguage: err != nil.
LoadLanguageErr(lang) == ~Decodable(lang.file)

\* LoadLanguage never returns: the bundle is nil, or the error is logged
\* through a sink that does not return.
LoadLanguageAborts(lang, b, sink) ==
    b = NilBundle \/ (LoadLanguageErr(lang) /\ ~LogErrorReturns(sink))

\* The bundle b after LoadLanguage(lang).
LoadLanguage(lang, b) ==
    IF LoadLanguageErr(lang) \/ b = NilBundle
    THEN b
    ELSE AddMessages(b, FileTag(lang.file), Body(lang.file))

\* A localizer made for the tag of the file name instead of lang.Tag.
NewLocalizer_FileTag(lang) ==
    [tag |-> FileTag(lang.file), current |-> TRUE, bundle |-> NilBundle]

\* goI18n.NewLocalizer(bundle, lang.Tag.String())
NewLocalizer(lang) ==
    [tag |-> LabelTag(lang.file), current |-> TRUE, bundle |-> NilBundle]

\* UseLanguage(lang): Language is assigned first, then the package is
\* loaded, and the localizer is replaced only when the load succeeded.
UseLanguage(lang, b, loc, sink) ==
    [Language  |-> lang,
     bundle    |-> LoadLanguage(lang, b),
     Localizer |-> IF LoadLanguageErr(lang) \/ b = NilBundle THEN loc
                   ELSE NewLocalizer(lang),
     err       |-> LoadLanguageErr(lang),
     aborts    |-> LoadLanguageAborts(lang, b, sink)]

\* Localize never returns: the localizer is nil, or the miss is logged
\* through a sink that does not return.
LocalizeAborts(id) ==
    \/ Localizer = NilLocalizer
    \/ LocalizerLocalize(Localizer, id).err /\ ~LogErrorReturns(logErrorFunc)

\* Localize(defaultLocalized, id, data, pluralCount): the returned text.
Localize(defaultLocalized, id) ==
    IF LocalizerLocalize(Localizer, id).err
    THEN defaultLocalized
    ELSE LocalizerLocalize(Localizer, id).text

-----------------------------------------------------------------------------
(* The options of InitI18nWithOptions.  An option carries its type and its  *)
(* data (a string; "" for the options that carry a callback).               *)

Option(optionType, data) == [OptionType |-> optionType, Data |-> data]

\* path.Join(dir, "*."+format), for a directory name that needs no cleaning.
JoinPattern(dir, format) == dir \o "/*." \o format

\* The values the option loop starts from: log.Fatalf, format "lang",
\* path.Join("./lang/*." + format), no package path seen.
DefaultConfig ==
    [logErrorFunc |-> "Fatalf", format |-> "lang",
     langFilesPattern |-> JoinPattern("lang", "lang"),
     existPackagePath |-> FALSE]

\* One pass of the switch over option.OptionType.  The options not listed
\* change nothing the model holds (LogInfoFunc, UnmarshalFunc,
\* PackageListFunc) or fall to `default: continue`.
ApplyOption(cfg, option) ==
    CASE option.OptionType = "LogErrorFunc" ->
            [cfg EXCEPT !.logErrorFunc = "custom"]
      [] option.OptionType = "PackageSuffix" ->
            [cfg EXCEPT !.format = option.Data,
                        !.langFilesPattern =
                            IF cfg.existPackagePath
                            THEN JoinPattern(option.Data, option.Data)
                            ELSE @]
      [] option.OptionType = "PackagePath" ->
            [cfg EXCEPT !.langFilesPattern = JoinPattern(option.Data, cfg.format),
                        !.existPackagePath = TRUE]
      [] option.OptionType = "PackagePattern" ->
            [cfg EXCEPT !.langFilesPattern = option.Data]
      [] OTHER -> cfg

\* The loop over the options, in the order given.
RECURSIVE OptionLoop(_, _)
OptionLoop(cfg, opts) ==
    IF opts = <<>> THEN cfg
    ELSE OptionLoop(ApplyOption(cfg, Head(opts)), Tail(opts))

\* The tag of the predefined language English.
English == "en"

\* The DefaultUseSystemLanguage option (its handling is in no revision of
\* the module at hand): the last such option decides, and without one the
\* system language is not used.
UseSystemLanguage(opts) ==
    LET S == {i \in 1..Len(opts) : opts[i].OptionType = "DefaultUseSystemLanguage"}
    IN  S # {} /\ opts[CHOOSE i \in S : \A j \in S : i >= j].Data = "true"

\* The fallback that never asks the host.
FallbackLang_English(opts, systemLocale) == English

\* The language a nil lang argument resolves to: the locale the host
\* reports when the system language is used, English otherwise.
FallbackLang(opts, systemLocale) ==
    IF UseSystemLanguage(opts) THEN systemLocale ELSE English

\* The locales the host may report.
SystemLocales == {"zh-Hans", "fr"}

\* The option lists of the engine's callers: with or without an error sink.
SinkOptions == {<<>>, <<Option("LogErrorFunc", "")>>}

-----------------------------------------------------------------------------
(* InitI18nWithOptions.                                                     *)

DiscoveryOutcomes ==
    {[err |-> TRUE, files |-> <<>>]}
    \cup {[err |-> FALSE, files |-> l] : l \in DiscoveryLists}

\* The loop without its break: the last descriptor with the tag wins.
FirstMatch_NoBreak(list, tag) ==
    LET M == {i \in 1..Len(list) : LabelTag(list[i].file) = tag}
    IN  IF M = {} THEN 0 ELSE CHOOSE i \in M : \A j \in M : i >= j

\* The loop over Languages: the index of the first descriptor whose tag
\* equals the tag (the loop breaks after it), 0 when there is none.
FirstMatch(list, tag) ==
    LET M == {i \in 1..Len(list) : LabelTag(list[i].file) = tag}
    IN  IF M = {} THEN 0 ELSE CHOOSE i \in M : \A j \in M : i <= j

Returned(op, err, val, logged) ==
    [op |-> op, err |-> err, val |-> val, logged |-> logged]

\* bundle = goI18n.NewBundle(...) allocates a new bundle: a localizer made
\* for the bundle so far keeps that one, which nothing loads into any more.
KeepsBundle(loc) ==
    IF loc.current THEN [loc EXCEPT !.current = FALSE, !.bundle = bundle]
    ELSE loc

\* Languages = packageList replaces the descriptors: one of the list so far
\* that is still held is no element of the new list.
NoLongerListed(lang) ==
    IF lang.origin = "listed" THEN [lang EXCEPT !.origin = "stale"] ELSE lang

\* lang: the requested language (a tag, or NIL); opts: the options;
\* discovery: what packageListFunc returns; systemLocale: the locale of
\* the host.
InitI18nWithOptionsOn(lang, opts, discovery, systemLocale) ==
    /\ pc = "idle" /\ ~crashed
    /\ options' = opts
    /\ handed' = OptionLoop(DefaultConfig, opts).langFilesPattern
    /\ LET sink == OptionLoop(DefaultConfig, opts).logErrorFunc
           tag  == IF lang = NIL THEN FallbackLang(opts, systemLocale) ELSE lang
           list == [i \in 1..Len(discovery.files) |->
                        LangObj(discovery.files[i], "listed")]
           m    == FirstMatch(list, tag)
           use  == UseLanguage(list[m], NewBundle(tag), KeepsBundle(Localizer), sink)
       IN  /\ logErrorFunc' = sink
           /\ DefaultLang' = tag
           /\ IF discovery.err
              THEN \* panic("[i18n] PackageList error")
                   /\ crashed' = TRUE
                   /\ bundle' = NewBundle(tag)
                   /\ Localizer' = KeepsBundle(Localizer)
                   /\ UNCHANGED <<Languages, Language, ret, inited>>
              ELSE IF Len(list) = 0
              THEN \* logErrorFunc, then panic("[i18n] Cannot load any language")
                   /\ crashed' = TRUE
                   /\ bundle' = NewBundle(tag)
                   /\ Localizer' = KeepsBundle(Localizer)
                   /\ Languages' = list
                   /\ Language' = NoLongerListed(Language)
                   /\ UNCHANGED <<ret, inited>>
              ELSE IF m = 0
              THEN /\ Languages' = list
                   /\ Language' = NoLongerListed(Language)
                   /\ bundle' = NewBundle(tag)
                   /\ Localizer' = KeepsBundle(Localizer)
                   /\ ret' = Returned("InitI18nWithOptions", FALSE, "", FALSE)
                   /\ inited' = TRUE
                   /\ UNCHANGED crashed
              ELSE /\ Languages' = list
                   /\ Language' = use.Language
                   /\ bundle' = use.bundle
                   /\ Localizer' = use.Localizer
                   /\ crashed' = use.aborts
                   /\ ret' = IF use.aborts THEN ret
                             ELSE Returned("InitI18nWithOptions", use.err, "", use.err)
                   /\ inited' = (inited \/ (~use.aborts /\ ~use.err))
    /\ UNCHANGED <<registry, loop, async, scan>>

\* The call on a host: the locale it reports is read only when the
\* language argument is nil and the system language is used.
InitI18nWithOptions(lang, opts, discovery) ==
    \E systemLocale \in (IF lang = NIL /\ UseSystemLanguage(opts)
                           THEN SystemLocales ELSE {NIL}) :
        InitI18nWithOptionsOn(lang, opts, discovery, systemLocale)

-----------------------------------------------------------------------------
(* The *Lang values a caller can pass: the descriptors of Languages, the    *)
(* one it holds as Language, and descriptors of its own making.             *)

LangArgs ==
    SeqRange(Languages) \cup ({Language} \ {NilLang})
    \cup {LangObj(f, "caller") : f \in CallerFiles}

\* LoadLanguage(lang) called on its own.
LoadLanguageCall(lang) ==
    /\ pc = "idle" /\ ~crashed
    /\ IF LoadLanguageAborts(lang, bundle, logErrorFunc)
       THEN crashed' = TRUE /\ UNCHANGED <<bundle, ret>>
       ELSE /\ bundle' = LoadLanguage(lang, bundle)
            /\ ret' = Returned("LoadLanguage", LoadLanguageErr(lang), "",
                               LoadLanguageErr(lang))
            /\ UNCHANGED crashed
    /\ UNCHANGED <<Localizer, Languages, Language, DefaultLang, logErrorFunc,
                   registry, loop, inited, async, setup, scan>>

\* UseLanguage(lang) called on its own.
UseLanguageCall(lang) ==
    /\ pc = "idle" /\ ~crashed
    /\ LET use == UseLanguage(lang, bundle, Localizer, logErrorFunc)
       IN  /\ Language' = use.Language
           /\ bundle' = use.bundle
           /\ Localizer' = use.Localizer
           /\ crashed' = use.aborts
           /\ ret' = IF use.aborts THEN ret
                     ELSE Returned("UseLanguage", use.err, "", use.err)
    /\ UNCHANGED <<Languages, DefaultLang, logErrorFunc, registry, loop, inited,
                   async, setup, scan>>

\* Localize(defaultLocalized, id, nil, 0), and T, TC, TData, TCData which
\* only forward to it.
LocalizeCall(defaultLocalized, id) ==
    /\ pc = "idle" /\ ~crashed
    /\ IF LocalizeAborts(id)
       THEN crashed' = TRUE /\ UNCHANGED ret
       ELSE /\ ret' = Returned("Localize", FALSE, Localize(defaultLocalized, id),
                               LocalizerLocalize(Localizer, id).err)
            /\ UNCHANGED crashed
    /\ UNCHANGED <<engine, registry, loop, inited, async, setup, scan>>

-----------------------------------------------------------------------------
(* The switch-callback registry.                                            *)

\* A *CallbackData.  A caller sets Callback and CallbackId; notOrigin is
\* set only by TCDataCallback, whose closure runs TCDataCallback again with
\* the same default text, message id and callback.
CallbackData(callback, callbackId) ==
    [Callback |-> callback, CallbackId |-> callbackId, notOrigin |-> FALSE,
     defaultLocalized |-> "", id |-> ""]

DerivedCallbackData(defaultLocalized, id, callback) ==
    [Callback |-> callback, CallbackId |-> 0, notOrigin |-> TRUE,
     defaultLocalized |-> defaultLocalized, id |-> id]

\* The entries callers subscribe, and the arguments of the helpers.
UserEntries == {CallbackData("f", 0), CallbackData("g", 1)}
HelperArgs == {<<"fallback", "greeting">>}

\* getNewCallbackDataId: atomic.AddUint32(&currentCallbackDataId, 1)
getNewCallbackDataId == (currentCallbackDataId + 1) % UINT32_MOD

\* A lookup that never finds an entry.
AddSwitchCallbackExists_Never(data) == FALSE

\* AddSwitchCallback finds an entry under data.CallbackId and returns.
AddSwitchCallbackExists(data) == data.CallbackId \in DOMAIN callbackDataMap

\* ... and logs "cannot add duplicated callback": the flag it reads is the
\* one of the entry found in the registry.
AddSwitchCallbackLogs(data) ==
    /\ AddSwitchCallbackExists(data)
    /\ ~callbackDataMap[data.CallbackId].notOrigin

\* AddSwitchCallback(data): the registry after the call.
AddSwitchCallback(data) ==
    IF AddSwitchCallbackExists(data)
    THEN UNCHANGED registry
    ELSE /\ currentCallbackDataId' = getNewCallbackDataId
         /\ callbackDataMap' =
                [k \in DOMAIN callbackDataMap \cup {getNewCallbackDataId} |->
                    IF k = getNewCallbackDataId THEN data
                    ELSE callbackDataMap[k]]

\* The model keeps the registry within MaxEntries entries.
HasRoom(data) ==
    AddSwitchCallbackExists(data)
    \/ Cardinality(DOMAIN callbackDataMap) < MaxEntries

\* AddSwitchCallback(data) called on its own.
AddSwitchCallbackRun(data) ==
    /\ pc = "idle" /\ ~crashed
    /\ AddSwitchCallback(data)
    /\ IF AddSwitchCallbackLogs(data) /\ ~LogErrorReturns(logErrorFunc)
       THEN crashed' = TRUE /\ UNCHANGED ret
       ELSE /\ ret' = Returned("AddSwitchCallback", FALSE, "",
                               AddSwitchCallbackLogs(data))
            /\ UNCHANGED crashed
    /\ UNCHANGED <<engine, loop, inited, async, setup, scan>>

\* ... while the registry is within MaxEntries entries.
AddSwitchCallbackCall(data) == HasRoom(data) /\ AddSwitchCallbackRun(data)

\* TCDataCallback(defaultLocalized, id, data, callback), and TCallback,
\* TCCallback, TDataCallback which only forward to it: the callback gets
\* the localized text, then the closure is subscribed.
TCDataCallbackCall(defaultLocalized, id, callback) ==
    /\ pc = "idle" /\ ~crashed
    /\ HasRoom(DerivedCallbackData(defaultLocalized, id, callback))
    /\ IF LocalizeAborts(id)
       THEN crashed' = TRUE /\ UNCHANGED <<ret, registry>>
       ELSE /\ AddSwitchCallback(DerivedCallbackData(defaultLocalized, id, callback))
            /\ IF /\ AddSwitchCallbackLogs(DerivedCallbackData(defaultLocalized, id, callback))
                  /\ ~LogErrorReturns(logErrorFunc)
               THEN crashed' = TRUE /\ UNCHANGED ret
               ELSE /\ ret' = Returned("TCDataCallback", FALSE,
                                       Localize(defaultLocalized, id),
                                       LocalizerLocalize(Localizer, id).err)
                    /\ UNCHANGED crashed
    /\ UNCHANGED <<engine, loop, inited, async, setup, scan>>

-----------------------------------------------------------------------------
(* AddSwitchCallback on a thread of its own: another thread of the caller,  *)
(* or the goroutine of AddSwitchCallbackDo.  It takes one step per access   *)
(* to the shared registry: the lookup, the atomic increment, the store.     *)
(* The map is accessed without a lock: a store that overlaps another        *)
(* thread's access is a data race, which the runtime may answer with a      *)
(* fatal error.                                                             *)

\* The entries subscribed from threads.
AsyncEntries ==
    {CallbackData("f", 0), CallbackData("k", 0), CallbackData("g", 1)}

\* At(t, pc, data): thread t is at pc of AddSwitchCallback(data).
At(t, at, data) == [goroutines EXCEPT ![t].pc = at, ![t].data = data]

\* A thread of the caller starts AddSwitchCallback(data).
ThreadAddSwitchCallback(t, data) ==
    /\ ~crashed /\ goroutines[t].pc = "idle"
    /\ goroutines' = [goroutines EXCEPT
                         ![t] = [pc |-> "lookup", data |-> data, origin |-> "thread"]]
    /\ UNCHANGED <<engine, registry, loop, ret, crashed, inited, doing, ran,
                   setup, scan>>

\* AddSwitchCallbackDo(data), first statement: go AddSwitchCallback(data).
AddSwitchCallbackDoGo(t, data) ==
    /\ ~crashed /\ pc = "idle" /\ doing = NoData
    /\ goroutines[t].pc = "idle"
    /\ goroutines' = [goroutines EXCEPT
                         ![t] = [pc |-> "lookup", data |-> data, origin |-> "go"]]
    /\ doing' = data
    /\ UNCHANGED <<engine, registry, loop, ret, crashed, inited, ran, setup, scan>>

\* AddSwitchCallbackDo(data), second statement: data.Callback(), on the
\* caller's thread; then the call returns.
AddSwitchCallbackDoCallback ==
    /\ ~crashed /\ doing # NoData
    /\ IF doing.Callback = NIL
       THEN crashed' = TRUE /\ UNCHANGED <<ran, doing, ret>>
       ELSE /\ ran' = Append(ran, doing.Callback)
            /\ doing' = NoData
            /\ ret' = Returned("AddSwitchCallbackDo", FALSE, "", FALSE)
            /\ UNCHANGED crashed
    /\ UNCHANGED <<engine, registry, loop, inited, goroutines, setup, scan>>

\* if data, exist := callbackDataMap[data.CallbackId]; exist { ... return }
GoLookup(t) ==
    /\ ~crashed /\ goroutines[t].pc = "lookup"
    /\ IF AddSwitchCallbackExists(goroutines[t].data)
       THEN /\ goroutines' = At(t, "done", goroutines[t].data)
            /\ crashed' = (AddSwitchCallbackLogs(goroutines[t].data)
                           /\ ~LogErrorReturns(logErrorFunc))
       ELSE /\ goroutines' = At(t, "add", goroutines[t].data)
            /\ UNCHANGED crashed
    /\ UNCHANGED <<engine, registry, loop, ret, inited, doing, ran, setup, scan>>

\* getNewCallbackDataId(): the value it returns is dropped.
GoGetNewCallbackDataId(t) ==
    /\ ~crashed /\ goroutines[t].pc = "add"
    /\ currentCallbackDataId' = getNewCallbackDataId
    /\ goroutines' = At(t, "store", goroutines[t].data)
    /\ UNCHANGED <<engine, callbackDataMap, loop, ret, crashed, inited, doing,
                   ran, setup, scan>>

\* Another thread is about to access the map.
MapAccessRaces(t) ==
    \E u \in Threads \ {t} : goroutines[u].pc \in {"lookup", "store"}

\* callbackDataMap[currentCallbackDataId] = data: the key is the counter as
\* it is now.  faults: the runtime detects a concurrent map access.
GoStore(t, faults) ==
    /\ ~crashed /\ goroutines[t].pc = "store"
    /\ faults => MapAccessRaces(t)
    /\ IF faults
       THEN crashed' = TRUE /\ UNCHANGED <<callbackDataMap, goroutines>>
       ELSE /\ callbackDataMap' =
                   [k \in DOMAIN callbackDataMap \cup {currentCallbackDataId} |->
                       IF k = currentCallbackDataId THEN goroutines[t].data
                       ELSE callbackDataMap[k]]
            /\ goroutines' = At(t, "done", goroutines[t].data)
            /\ UNCHANGED crashed
    /\ UNCHANGED <<engine, currentCallbackDataId, loop, ret, inited, doing, ran,
                   setup, scan>>

-----------------------------------------------------------------------------
(* SwitchLanguage.  The notification loop ranges over a Go map: it produces *)
(* every entry present when it starts exactly once, in an order that is not *)
(* specified, and an entry inserted while it runs is produced or skipped.   *)

\* One invocation of a callback, with what it can observe.
Invocation(k, callback, arg) ==
    [key |-> k, Callback |-> callback, arg |-> arg,
     Language |-> Language, Localizer |-> Localizer]

\* SwitchLanguage(lang) up to the start of the notification loop.
SwitchLanguage(lang) ==
    /\ pc = "idle" /\ ~crashed
    /\ IF LoadLanguageAborts(lang, bundle, logErrorFunc)
       THEN /\ crashed' = TRUE
            /\ UNCHANGED <<Localizer, Language, bundle, ret, loop>>
       ELSE IF LoadLanguageErr(lang)
       THEN /\ ret' = Returned("SwitchLanguage", TRUE, "", TRUE)
            /\ UNCHANGED <<Localizer, Language, bundle, crashed, loop>>
       ELSE /\ bundle' = LoadLanguage(lang, bundle)
            /\ Localizer' = NewLocalizer(lang)
            /\ Language' = lang
            /\ pc' = "notify"
            /\ switchLang' = lang
            /\ startKeys' = DOMAIN callbackDataMap
            /\ pending' = DOMAIN callbackDataMap
            /\ calls' = <<>>
            /\ UNCHANGED <<ret, crashed>>
    /\ UNCHANGED <<Languages, DefaultLang, logErrorFunc, registry, inited,
                   async, setup, scan>>

\* One iteration of the loop, on the entry under key k.  A caller's callback
\* runs; a closure of TCDataCallback localizes, runs the callback and
\* subscribes a new closure, which this loop produces later or skips.
NotifyRun(k, produced) ==
    /\ pc = "notify" /\ ~crashed
    /\ k \in pending
    /\ LET data == callbackDataMap[k]
           next == DerivedCallbackData(data.defaultLocalized, data.id, data.Callback)
       IN  IF data.Callback = NIL
           THEN /\ pending' = pending \ {k}
                /\ UNCHANGED <<calls, registry, crashed>>
           ELSE IF ~data.notOrigin
           THEN /\ calls' = Append(calls, Invocation(k, data.Callback, ""))
                /\ pending' = pending \ {k}
                /\ UNCHANGED <<registry, crashed>>
           ELSE IF LocalizeAborts(data.id)
                THEN /\ crashed' = TRUE
                     /\ UNCHANGED <<calls, pending, registry>>
                ELSE /\ calls' = Append(calls,
                            Invocation(k, data.Callback,
                                       Localize(data.defaultLocalized, data.id)))
                     /\ AddSwitchCallback(next)
                     /\ crashed' = (AddSwitchCallbackLogs(next)
                                    /\ ~LogErrorReturns(logErrorFunc))
                     /\ pending' = (pending \ {k}) \cup
                            (IF produced /\ ~AddSwitchCallbackExists(next)
                             THEN {getNewCallbackDataId} ELSE {})
    /\ UNCHANGED <<engine, pc, switchLang, startKeys, ret, inited,
                   async, setup, scan>>

\* ... while the registry is within MaxEntries entries.
Notify(k, produced) ==
    /\ pc = "notify" /\ k \in pending
    /\ (callbackDataMap[k].Callback # NIL /\ callbackDataMap[k].notOrigin) =>
           HasRoom(DerivedCallbackData(callbackDataMap[k].defaultLocalized,
                                       callbackDataMap[k].id,
                                       callbackDataMap[k].Callback))
    /\ NotifyRun(k, produced)

\* A range that ends only when the registry is the one it started on.
RangeExhausted_Unchanged ==
    pending = {} /\ DOMAIN callbackDataMap = startKeys

\* The range has produced every entry it is going to produce.
RangeExhausted == pending = {}

\* The loop is over: SwitchLanguage returns nil.
SwitchLanguageReturn ==
    /\ pc = "notify" /\ ~crashed
    /\ RangeExhausted
    /\ pc' = "idle"
    /\ ret' = Returned("SwitchLanguage", FALSE, "", FALSE)
    /\ switchLang' = NilLang
    /\ startKeys' = {}
    /\ calls' = <<>>
    /\ UNCHANGED <<engine, registry, pending, crashed, inited,
                   async, setup, scan>>

-----------------------------------------------------------------------------
(* The engine: initialisation (any number of times), then load, use,      *)
(* switch and resolution, with no callback subscribed.  The other calls     *)
(* follow the first InitI18nWithOptions call.                               *)
Next ==
    \/ \E lang \in RequestedLangs, opts \in SinkOptions, d \in DiscoveryOutcomes :
          InitI18nWithOptions(lang, opts, d)
    \/ \E lang \in LangArgs : bundle # NilBundle /\ LoadLanguageCall(lang)
    \/ \E lang \in LangArgs : bundle # NilBundle /\ UseLanguageCall(lang)
    \/ \E lang \in LangArgs : bundle # NilBundle /\ SwitchLanguage(lang)
    \/ SwitchLanguageReturn
    \/ \E a \in LocalizeArgs : bundle # NilBundle /\ LocalizeCall(a[1], a[2])

Spec == Init /\ [][Next]_vars

(* The registry: one initialisation with the two usual packages, and        *)
(* subscriptions and switches.                                              *)
NextRegistry ==
    \/ \E opts \in SinkOptions :
          /\ bundle = NilBundle
          /\ InitI18nWithOptions("en", opts,
                [err |-> FALSE, files |-> <<"en.lang", "zh.lang">>])
    \/ \E lang \in LangArgs : bundle # NilBundle /\ SwitchLanguage(lang)
    \/ \E k \in pending, produced \in BOOLEAN : Notify(k, produced)
    \/ SwitchLanguageReturn
    \/ \E data \in UserEntries : AddSwitchCallbackCall(data)
    \/ \E a \in HelperArgs :
          bundle # NilBundle /\ TCDataCallbackCall(a[1], a[2], "h")

SpecRegistry == Init /\ [][NextRegistry]_vars

(* Subscription from several threads: one initialisation, then              *)
(* AddSwitchCallback on threads of the caller and AddSwitchCallbackDo.      *)
NextConcurrent ==
    \/ \E opts \in SinkOptions :
          /\ bundle = NilBundle
          /\ InitI18nWithOptions("en", opts,
                [err |-> FALSE, files |-> <<"en.lang", "zh.lang">>])
    \/ \E t \in Threads, data \in AsyncEntries : ThreadAddSwitchCallback(t, data)
    \/ \E t \in Threads, data \in AsyncEntries : AddSwitchCallbackDoGo(t, data)
    \/ AddSwitchCallbackDoCallback
    \/ \E t \in Threads : GoLookup(t)
    \/ \E t \in Threads : GoGetNewCallbackDataId(t)
    \/ \E t \in Threads, faults \in BOOLEAN : GoStore(t, faults)

SpecConcurrent == Init /\ [][NextConcurrent]_vars

(* Initialisation with every option list, from the state the process        *)
(* starts in.                                                               *)
OptionValues ==
    {Option("LogErrorFunc", ""), Option("PackageSuffix", "toml"),
     Option("PackagePath", "res"), Option("PackagePattern", "pkg/*.json"),
     Option("PackagePattern", "i18n/*.yaml"),
     Option("DefaultUseSystemLanguage", "true"),
     Option("DefaultUseSystemLanguage", "false")}

RECURSIVE OptionListsOf(_)
OptionListsOf(n) ==
    IF n = 0 THEN {<<>>}
    ELSE OptionListsOf(n - 1)
         \cup {Append(l, o) : l \in OptionListsOf(n - 1), o \in OptionValues}

OptionLists == OptionListsOf(MaxOptions)

NextOptions ==
    /\ bundle = NilBundle
    /\ \E lang \in RequestedLangs, opts \in OptionLists, d \in DiscoveryOutcomes :
          InitI18nWithOptions(lang, opts, d)

SpecOptions == Init /\ [][NextOptions]_vars

-----------------------------------------------------------------------------
(* Package discovery.  A package file is known by its name; of its content  *)
(* the discovery reads the first line.  A tag string is the sequence of its *)
(* comma-separated entries, each a tag and its weight q in tenths (10 when  *)
(* the entry has none); the tag "!!" is one the tag parser rejects.         *)

Entry(tag, q) == [tag |-> tag, q |-> q]

\* The first line of a file: whether i18nLabelRegexp matches it, and the
\* two groups of the match.
Label(tags, name) == [label |-> TRUE, tags |-> tags, name |-> name]
NoLabel == [label |-> FALSE, tags |-> <<>>, name |-> ""]

\* A file: whether os.Open succeeds, its first line, and whether a '\n'
\* ends that line (it does not when the file ends with it, or is empty).
Content(opens, top, newline) == [opens |-> opens, top |-> top, newline |-> newline]

PackageFiles ==
    {"en.lang", "zh.lang", "only.lang", "multi.lang", "weighted.lang",
     "plain.lang", "empty.lang", "notag.lang", "badtag.lang", "locked.lang"}

FileContent(f) ==
    CASE f = "en.lang" ->
            Content(TRUE, Label(<<Entry("en", 10)>>, "English"), TRUE)
      [] f = "zh.lang" ->
            Content(TRUE, Label(<<Entry("zh-Hans", 10)>>, "Chinese"), TRUE)
      [] f = "only.lang" ->      \* the label line and nothing after it
            Content(TRUE, Label(<<Entry("en", 10)>>, "English"), FALSE)
      [] f = "multi.lang" ->
            Content(TRUE, Label(<<Entry("zh-Hans", 10), Entry("en", 10)>>,
                                "Chinese"), TRUE)
      [] f = "weighted.lang" ->  \* <en;q=0.5,zh-Hans>
            Content(TRUE, Label(<<Entry("en", 5), Entry("zh-Hans", 10)>>,
                                "English"), TRUE)
      [] f = "plain.lang" ->     \* a first line without label
            Content(TRUE, NoLabel, TRUE)
      [] f = "empty.lang" ->     \* no bytes at all
            Content(TRUE, NoLabel, FALSE)
      [] f = "notag.lang" ->     \* <> <English>
            Content(TRUE, Label(<<>>, "English"), TRUE)
      [] f = "badtag.lang" ->    \* <!!> <English>
            Content(TRUE, Label(<<Entry("!!", 10)>>, "English"), TRUE)
      [] f = "locked.lang" ->    \* os.Open fails
            Content(FALSE, NoLabel, FALSE)

\* language.Parse accepts the tag.
ParsableTag(tag) == tag # "!!"

\* The entries in descending order of weight, entries of equal weight in
\* the order given (sort.Stable).
RECURSIVE SortByWeight(_)
SortByWeight(entries) ==
    IF entries = <<>> THEN <<>>
    ELSE LET n    == Len(entries)
             rest == SortByWeight(SubSeq(entries, 1, n - 1))
             k    == Cardinality({i \in 1..Len(rest) : rest[i].q >= entries[n].q})
         IN  SubSeq(rest, 1, k) \o <<entries[n]>> \o SubSeq(rest, k + 1, Len(rest))

\* language.ParseAcceptLanguage: an error when an entry does not parse,
\* otherwise the tags sorted by weight.
ParseAcceptLanguage(lang) ==
    IF \E i \in 1..Len(lang) : ~ParsableTag(lang[i].tag)
    THEN [err |-> TRUE, tags |-> <<>>]
    ELSE LET sorted == SortByWeight(lang)
         IN  [err |-> FALSE, tags |-> [i \in 1..Len(sorted) |-> sorted[i].tag]]

\* parseTags: no tags when the parser reports an error.
parseTags(lang) ==
    IF ParseAcceptLanguage(lang).err THEN <<>> ELSE ParseAcceptLanguage(lang).tags

\* ReadLangLabel: the two groups of the match, or an empty slice.
ReadLangLabel(topLine) ==
    IF topLine.label THEN <<topLine.tags, topLine.name>> ELSE <<>>

\* A discovered *Lang, and no *Lang.
Lang(name, tag, fileName) == [Name |-> name, Tag |-> tag, FileName |-> fileName]
NoLang == Lang("", NIL, "")

\* What a reader gives: the *Lang it returns (NoLang for nil), or that it
\* never returns (a panic, or an exit in the sink).
Read(lang, aborts) == [lang |-> lang, aborts |-> aborts]

\* &Lang{Name: labels[1], Tag: parseTags(labels[0])[0], FileName: fileName}:
\* indexing the empty slice panics.
NewLang(labels, fileName) ==
    IF Len(parseTags(labels[1])) = 0
    THEN Read(NoLang, TRUE)
    ELSE Read(Lang(labels[2], parseTags(labels[1])[1], fileName), FALSE)

\* ReadLangFromFileName with the error sink.
ReadLangFromFileName(fileName, sink) ==
    LET f      == FileContent(fileName)
        labels == ReadLangLabel(f.top)
    IN  IF ~f.opens
        THEN Read(NoLang, TRUE)                      \* logErrorFunc; panic(err)
        ELSE IF ~f.newline                           \* ReadString: io.EOF
        THEN Read(NoLang, ~LogErrorReturns(sink))
        ELSE IF Len(labels) < 2
        THEN Read(NoLang, ~LogErrorReturns(sink))
        ELSE NewLang(labels, fileName)

\* ReadLangFromBytes on the bytes of the file: the first line is what
\* comes before the first '\r' or '\n', or all of it.
ReadLangFromBytes(data, fileName, sink) ==
    LET labels == ReadLangLabel(data.top)
    IN  IF Len(labels) < 2
        THEN Read(NoLang, ~LogErrorReturns(sink))
        ELSE NewLang(labels, fileName)

\* The loop of PackageListByPatternFunc over the files the glob gives:
\* the descriptors appended so far, and whether a reader did not return.
RECURSIVE ReadPackages(_, _)
ReadPackages(packages, sink) ==
    IF packages = <<>> THEN [languages |-> <<>>, aborts |-> FALSE]
    ELSE LET n     == Len(packages)
             first == ReadPackages(SubSeq(packages, 1, n - 1), sink)
             lang  == ReadLangFromFileName(packages[n], sink)
         IN  IF first.aborts THEN first
             ELSE IF lang.aborts THEN [first EXCEPT !.aborts = TRUE]
             ELSE IF lang.lang = NoLang THEN first
             ELSE [first EXCEPT !.languages = Append(@, lang.lang)]

\* The patterns given: none, one path.Glob rejects, one it resolves.
Patterns == {"", "[", "lang/*.lang"}
BadPattern(pattern) == pattern = "["

Found(op, err, langs) == [op |-> op, err |-> err, langs |-> langs]

RECURSIVE FileListsOf(_)
FileListsOf(n) ==
    IF n = 0 THEN {<<>>}
    ELSE FileListsOf(n - 1)
         \cup {Append(l, f) : l \in FileListsOf(n - 1), f \in PackageFiles}

\* What a glob may match.
FileLists == FileListsOf(MaxFiles)

\* PackageListByPatternFunc(NewOptionWithData(PackagePattern, pattern)) on
\* a file system where the pattern matches the packages.
PackageListByPatternFunc(pattern, packages) ==
    /\ pc = "idle" /\ ~crashed
    /\ (pattern = "" \/ BadPattern(pattern)) => packages = <<>>
    /\ matched' = packages
    /\ IF pattern = "" \/ BadPattern(pattern)
       THEN \* logErrorFunc(err.Error()); return nil, err
            /\ crashed' = ~LogErrorReturns(logErrorFunc)
            /\ found' = Found("PackageListByPatternFunc",
                              LogErrorReturns(logErrorFunc), <<>>)
       ELSE LET read == ReadPackages(packages, logErrorFunc)
            IN  /\ crashed' = read.aborts
                /\ found' = Found("PackageListByPatternFunc", FALSE, read.languages)
    /\ handed' = pattern
    /\ UNCHANGED <<engine, registry, loop, async, options, ret, inited>>

\* ReadLangFromFileName(fileName) called on its own.
ReadLangFromFileNameCall(fileName) ==
    /\ pc = "idle" /\ ~crashed
    /\ LET read == ReadLangFromFileName(fileName, logErrorFunc)
       IN  /\ crashed' = read.aborts
           /\ found' = Found("ReadLangFromFileName", FALSE,
                             IF read.lang = NoLang THEN <<>> ELSE <<read.lang>>)
    /\ matched' = <<fileName>>
    /\ UNCHANGED <<engine, registry, loop, async, setup, ret, inited>>

\* ReadLangFromBytes(&data, fileName) called on its own, with the bytes of
\* the file.
ReadLangFromBytesCall(fileName) ==
    /\ pc = "idle" /\ ~crashed
    /\ FileContent(fileName).opens
    /\ LET read == ReadLangFromBytes(FileContent(fileName), fileName, logErrorFunc)
       IN  /\ crashed' = read.aborts
           /\ found' = Found("ReadLangFromBytes", FALSE,
                             IF read.lang = NoLang THEN <<>> ELSE <<read.lang>>)
    /\ matched' = <<fileName>>
    /\ UNCHANGED <<engine, registry, loop, async, setup, ret, inited>>

(* Discovery: before any initialisation, or after one with either sink.     *)
NextDiscovery ==
    \/ \E opts \in SinkOptions :
          /\ bundle = NilBundle /\ found = NoFound
          /\ InitI18nWithOptions("en", opts,
                [err |-> FALSE, files |-> <<"en.lang", "zh.lang">>])
    \/ /\ found = NoFound
       /\ \E pattern \in Patterns, packages \in FileLists :
             PackageListByPatternFunc(pattern, packages)
    \/ \E fileName \in PackageFiles :
          found = NoFound /\ ReadLangFromFileNameCall(fileName)
    \/ \E fileName \in PackageFiles :
          found = NoFound /\ ReadLangFromBytesCall(fileName)

SpecDiscovery == Init /\ [][NextDiscovery]_vars

(* The id counter up to its wrap-around: subscriptions from one thread, the *)
(* registry limited by the width of the counter only.  The entries carry    *)
(* the CallbackId 0, or the last id before the counter wraps.               *)
WrapEntries ==
    {CallbackData("f", 0), CallbackData("g", 0), CallbackData("f", UINT32_MOD - 1)}

NextWrap ==
    \/ \E opts \in SinkOptions :
          /\ bundle = NilBundle
          /\ InitI18nWithOptions("en", opts,
                [err |-> FALSE, files |-> <<"en.lang", "zh.lang">>])
    \/ \E data \in WrapEntries : AddSwitchCallbackRun(data)

SpecWrap == Init /\ [][NextWrap]_vars

-----------------------------------------------------------------------------
(* InitI18nWithConfig and InitI18n, the entry points of the revision        *)
(* before the option list (i18n.go).  They work on the same package         *)
(* variables.  The files the pattern matches all carry a label.             *)

\* The tag of the predefined language SimplifiedChinese.
SimplifiedChinese == "zh-Hans"

\* The error sink the call installs: log.Fatalf for a nil argument.
ConfigSinks == {NIL, "custom"}
ConfigSink(logErrorFuncArg) ==
    IF logErrorFuncArg = NIL THEN "Fatalf" ELSE "custom"

\* The loop of initI18n over the files, from the values r of Language,
\* Languages, Localizer and bundle: the first file with the default tag
\* found while Language is nil is loaded and becomes the language in use
\* (a failed load is logged and ends initI18n), every other file is
\* appended to Languages.
RECURSIVE initI18nLoop(_, _, _, _)
initI18nLoop(files, tag, sink, r) ==
    IF files = <<>> \/ r.done \/ r.aborts THEN r
    ELSE LET f    == Head(files)
             lang == LangObj(f, "listed")
         IN  IF r.Language = NilLang /\ tag = LabelTag(f)
             THEN IF ~Decodable(f)
                  THEN [r EXCEPT !.Language = lang,
                                 !.done = LogErrorReturns(sink),
                                 !.aborts = ~LogErrorReturns(sink)]
                  ELSE initI18nLoop(Tail(files), tag, sink,
                          [r EXCEPT !.Language = lang,
                                    !.bundle = AddMessages(@, FileTag(f), Body(f)),
                                    !.Localizer = NewLocalizer(lang),
                                    !.Languages = <<lang>> \o @])
             ELSE initI18nLoop(Tail(files), tag, sink,
                     [r EXCEPT !.Languages = Append(@, lang)])

\* InitI18nWithConfig(lang, logInfoFunc, logErrorFunc, "", nil, "") with
\* what path.Glob gives for ./lang/*.lang; InitI18n forwards to it.
InitI18nWithConfig(lang, logErrorFuncArg, discovery) ==
    /\ pc = "idle" /\ ~crashed
    /\ Len(Languages) + Len(discovery.files) <= MaxLanguages
    /\ LET sink == ConfigSink(logErrorFuncArg)
           tag  == IF lang = NIL THEN SimplifiedChinese ELSE lang
           r    == initI18nLoop(discovery.files, tag, sink,
                      [Language |-> Language, Languages |-> Languages,
                       Localizer |-> KeepsBundle(Localizer),
                       bundle |-> NewBundle(tag), done |-> FALSE,
                       aborts |-> discovery.err /\ ~LogErrorReturns(sink)])
       IN  /\ logErrorFunc' = sink
           /\ IF lang = NIL /\ DefaultLang = NIL
              THEN \* LogInfoFunc(..., DefaultLang.Name, ...): nil dereference
                   /\ crashed' = TRUE
                   /\ UNCHANGED <<Localizer, Languages, Language, DefaultLang,
                                  bundle, handed, ret>>
              ELSE /\ DefaultLang' = tag
                   /\ handed' = JoinPattern("lang", "lang")
                   /\ Language' = r.Language
                   /\ Languages' = r.Languages
                   /\ Localizer' = r.Localizer
                   /\ bundle' = r.bundle
                   \* panic("[i18n] Cannot load any language")
                   /\ crashed' = (r.aborts \/ (~r.done /\ r.Language = NilLang))
                   /\ ret' = IF r.aborts \/ (~r.done /\ r.Language = NilLang)
                             THEN ret
                             ELSE Returned("InitI18nWithConfig", FALSE, "",
                                           r.done \/ discovery.err)
    /\ UNCHANGED <<registry, loop, async, scan, options, inited>>

\* SetDefaultLang(lang)
SetDefaultLangCall(tag) ==
    /\ pc = "idle" /\ ~crashed
    /\ DefaultLang' = tag
    /\ ret' = Returned("SetDefaultLang", FALSE, tag, FALSE)
    /\ UNCHANGED <<Localizer, Languages, Language, logErrorFunc, bundle,
                   registry, loop, async, setup, scan, crashed, inited>>

NextConfig ==
    \/ \E lang \in RequestedLangs, arg \in ConfigSinks, d \in DiscoveryOutcomes :
          InitI18nWithConfig(lang, arg, d)
    \/ \E tag \in RequestedLangs \ {NIL} : SetDefaultLangCall(tag)

SpecConfig == Init /\ [][NextConfig]_vars

-----------------------------------------------------------------------------
(* The notification loop run to its end.  SwitchLanguage runs the loop in   *)
(* the caller's goroutine, one callback after the other, so the loop goes   *)
(* on while an entry is left to produce and SwitchLanguage returns when     *)
(* none is; a callback that returns lets the next step happen.  The error   *)
(* sink is the caller's, which returns, and the switches are to the listed  *)
(* languages.  The loop inserts freely: the registry holds at most one      *)
(* entry per id.  A switch starts on fewer than MaxEntries entries.         *)
NextSwitch ==
    \/ \E opts \in {<<Option("LogErrorFunc", "")>>} :
          /\ bundle = NilBundle
          /\ InitI18nWithOptions("en", opts,
                [err |-> FALSE, files |-> <<"en.lang", "zh.lang">>])
    \/ \E lang \in SeqRange(Languages) :
          /\ bundle # NilBundle
          /\ Cardinality(DOMAIN callbackDataMap) < MaxEntries
          /\ SwitchLanguage(lang)
    \/ \E k \in pending, produced \in BOOLEAN : NotifyRun(k, produced)
    \/ SwitchLanguageReturn
    \/ \E data \in UserEntries : AddSwitchCallbackCall(data)
    \/ \E a \in HelperArgs :
          bundle # NilBundle /\ TCDataCallbackCall(a[1], a[2], "h")

SpecSwitch ==
    /\ Init /\ [][NextSwitch]_vars
    /\ WF_vars(\E k \in pending, produced \in BOOLEAN : NotifyRun(k, produced))
    /\ WF_vars(SwitchLanguageReturn)

-----------------------------------------------------------------------------
(* Properties.                                                              *)

BodyIds(f) == {p[1] : p \in Body(f)}
BodyText(f, id) == (CHOOSE p \in Body(f) : p[1] = id)[2]

\* The callbacks subscribed when the running switch started, and how often
\* it has invoked one.
SubscribedAtStart == {callbackDataMap[k].Callback : k \in startKeys}
TimesInvoked(callback) ==
    Cardinality({i \in 1..Len(calls) : calls[i].Callback = callback})

\* The notification loop of a successful SwitchLanguage is over.
LoopOver == pc = "notify" /\ pending = {} /\ ~crashed

(* C1: a SwitchLanguage(d) whose load fails returns a non-nil error, leaves *)
(* Language and Localizer as they were and invokes no callback.             *)
C1_FailedSwitchReturnsErrorNoEffect ==
    [][\A lang \in LangArgs :
          (LoadLanguageErr(lang) /\ SwitchLanguage(lang)) =>
              /\ ~crashed'
              /\ ret' = Returned("SwitchLanguage", TRUE, "", TRUE)
              /\ Language' = Language
              /\ Localizer' = Localizer
              /\ pc' = "idle" /\ calls' = calls]_vars

(* C2: when the loop of a successful SwitchLanguage is over, every callback *)
(* subscribed before the call has been invoked exactly once.                *)
C2_EachSubscribedCallbackInvokedOnce ==
    LoopOver => \A cb \in SubscribedAtStart : TimesInvoked(cb) = 1

(* C3: the entries subscribed before a switch are notified in registration  *)
(* order, i.e. in the order of their registry ids.                          *)
C3_NotifiedInRegistrationOrder ==
    \A i, j \in 1..Len(calls) :
        (i < j /\ calls[i].key \in startKeys /\ calls[j].key \in startKeys)
            => calls[i].key < calls[j].key

(* C4: AddSwitchCallback(e) for an entry e that is not derived and is       *)
(* already subscribed inserts nothing: the registry keeps one entry for it. *)
C4_SecondSubscribeInsertsNothing ==
    [][\A e \in UserEntries :
          ((\E k \in DOMAIN callbackDataMap : callbackDataMap[k] = e)
           /\ AddSwitchCallbackCall(e)) =>
              /\ callbackDataMap' = callbackDataMap
              /\ Cardinality({k \in DOMAIN callbackDataMap' :
                                 callbackDataMap'[k] = e}) = 1]_vars

\* The ids of the active catalog: the messages of the package Language
\* describes; none while no language is active.
ActiveCatalogIds == IF Language = NilLang THEN {} ELSE BodyIds(Language.file)

(* C5: with an error sink that returns, once InitI18nWithOptions has        *)
(* returned nil, Localize(default, id) returns default for every id that is *)
(* not in the active catalog.                                               *)
C5_MissReturnsDefault ==
    [][\A a \in LocalizeArgs :
          (/\ inited /\ LogErrorReturns(logErrorFunc)
           /\ a[2] \notin ActiveCatalogIds
           /\ LocalizeCall(a[1], a[2])) =>
              /\ ~crashed'
              /\ ret'.op = "Localize" /\ ret'.val = a[1]]_vars

(* C6: a Localize call for an unknown id returns to its caller, whether or  *)
(* not the LogErrorFunc option was given (stated for the states in which a  *)
(* localizer exists).                                                       *)
C6_MissReturnsControl ==
    [][(/\ inited /\ Localizer # NilLocalizer
        /\ LocalizeCall("fallback", "missing.key")) => ~crashed']_vars

(* C7: while the callbacks of SwitchLanguage(d) run, the package of d is    *)
(* loaded, Language is d and Localizer is a localizer of the current bundle *)
(* for d's tag; every callback invoked so far has observed just that.       *)
C7_CallbacksSeeNewLanguage ==
    pc = "notify" =>
        /\ Language = switchLang
        /\ Localizer.tag = LabelTag(switchLang.file) /\ Localizer.current
        /\ \A p \in Body(switchLang.file) :
               <<FileTag(switchLang.file), p[1], p[2]>> \in bundle.messages
        /\ \A i \in 1..Len(calls) :
               /\ calls[i].Language = switchLang
               /\ calls[i].Localizer.tag = LabelTag(switchLang.file)
               /\ calls[i].Localizer.current

\* A callback has run during a switch to the Chinese package.
C7_Witness ==
    /\ pc = "notify" /\ Len(calls) >= 1
    /\ switchLang.file = "zh.lang"
    /\ calls[1].Language.file = "zh.lang"

\* The last call selected a language and returned nil: a SwitchLanguage, or
\* an InitI18nWithOptions that found the requested tag in the list.
SelectedLanguage ==
    /\ ~crashed /\ pc = "idle" /\ ~ret.err
    /\ \/ ret.op = "SwitchLanguage"
       \/ /\ ret.op = "InitI18nWithOptions"
          /\ \E i \in 1..Len(Languages) : LabelTag(Languages[i].file) = DefaultLang

(* C8: after a successful SwitchLanguage(d) (or initialisation on d),       *)
(* Localize returns d's text for every id of d's catalog.                   *)
C8_LocalizeReflectsLastSwitch ==
    SelectedLanguage =>
        \A id \in BodyIds(Language.file) :
            /\ ~LocalizeAborts(id)
            /\ Localize("fallback", id) = BodyText(Language.file, id)

(* C9: Language, once non-nil, is an element of Languages.                  *)
C9_LanguageIsListed ==
    (~crashed /\ Language # NilLang) => Language \in SeqRange(Languages)

(* C10: when InitI18nWithOptions returns nil and the discovered list holds  *)
(* the requested tag, Languages is that list in its order, Language is its  *)
(* first descriptor with the tag, and only that package is loaded.          *)
C10_InitSelectsFirstMatch ==
    [][(~crashed' /\ ret'.op = "InitI18nWithOptions" /\ ~ret'.err) =>
       \A lang \in RequestedLangs, opts \in SinkOptions, d \in DiscoveryOutcomes :
          (/\ InitI18nWithOptions(lang, opts, d)
           /\ \E i \in 1..Len(d.files) : LabelTag(d.files[i]) = DefaultLang') =>
              /\ Len(Languages') = Len(d.files)
              /\ \A i \in 1..Len(d.files) : Languages'[i].file = d.files[i]
              /\ \E i \in 1..Len(d.files) :
                    /\ LabelTag(d.files[i]) = DefaultLang'
                    /\ \A j \in 1..(i - 1) : LabelTag(d.files[j]) # DefaultLang'
                    /\ Language' = Languages'[i]
                    /\ bundle'.messages =
                          {<<FileTag(d.files[i]), p[1], p[2]>> : p \in Body(d.files[i])}]_vars

\* Initialised on a list with two English packages: the first is active.
C10_Witness ==
    /\ ~crashed /\ ret.op = "InitI18nWithOptions" /\ ~ret.err
    /\ DefaultLang = "en" /\ Len(Languages) = 3
    /\ LabelTag(Languages[1].file) = "en" /\ LabelTag(Languages[2].file) = "en"
    /\ Language = Languages[1]
    /\ Localize("fallback", "greeting") = "Hi"

\* The registry holds the entry.
Registered(data) ==
    \E k \in DOMAIN callbackDataMap : callbackDataMap[k] = data

\* A fresh entry: its CallbackId is the zero value, which is no key of the
\* registry while the counter has not wrapped around.
Fresh(data) == data.CallbackId = 0

(* C11: when two AddSwitchCallback executions on two threads, with two      *)
(* distinct fresh entries, have both completed, the registry holds both     *)
(* entries, under two distinct ids.                                         *)
C11_ParallelSubscribeKeepsBoth ==
    \A t, u \in Threads :
        (/\ t # u /\ ~crashed
         /\ goroutines[t].pc = "done" /\ goroutines[u].pc = "done"
         /\ goroutines[t].data # goroutines[u].data
         /\ Fresh(goroutines[t].data) /\ Fresh(goroutines[u].data))
        => \E j, k \in DOMAIN callbackDataMap :
               /\ j # k
               /\ callbackDataMap[j] = goroutines[t].data
               /\ callbackDataMap[k] = goroutines[u].data

\* The AddSwitchCallbackDo calls made so far for a callback, and those of
\* them that have returned.
DoCalls(callback) ==
    Cardinality({t \in Threads : /\ goroutines[t].origin = "go"
                                 /\ goroutines[t].data.Callback = callback})
DoReturned(callback) ==
    DoCalls(callback) - (IF doing.Callback = callback THEN 1 ELSE 0)

(* C12: every AddSwitchCallbackDo(e) that has returned has invoked e's      *)
(* callback exactly once on the caller's thread, and once the registration  *)
(* it started has completed, a fresh entry e is in the registry.            *)
C12_DoRunsOnceAndRegisters ==
    ~crashed =>
        /\ \A e \in AsyncEntries :
               Cardinality({i \in 1..Len(ran) : ran[i] = e.Callback})
                   = DoReturned(e.Callback)
        /\ \A t \in Threads :
               (/\ goroutines[t].origin = "go" /\ goroutines[t].pc = "done"
                /\ Fresh(goroutines[t].data))
               => Registered(goroutines[t].data)


-----------------------------------------------------------------------------
(* The pattern handed to discovery.                                         *)

\* The positions of the options of a type in the list of the last call.
OptionsOfType(optionType) ==
    {i \in 1..Len(options) : options[i].OptionType = optionType}

\* The last position of a non-empty set of positions.
LastOf(S) == CHOOSE i \in S : \A j \in S : i >= j

(* C13: when the option list holds a PackagePath option with directory p    *)
(* and, later in the list, a PackageSuffix option with suffix s (and no     *)
(* other option that touches the pattern), the pattern handed to discovery  *)
(* is p/*.s once the call has returned.                                     *)
C13_SuffixAfterPathKeepsPath ==
    \A i \in OptionsOfType("PackagePath"), j \in OptionsOfType("PackageSuffix") :
        ( /\ ~crashed
          /\ i < j
          /\ OptionsOfType("PackagePath") = {i}
          /\ OptionsOfType("PackageSuffix") = {j}
          /\ OptionsOfType("PackagePattern") = {} )
        => handed = JoinPattern(options[i].Data, options[j].Data)

(* C14: when the option list holds a PackagePattern option, the pattern     *)
(* handed to discovery is the value of the last PackagePattern option,      *)
(* wherever the PackageSuffix and PackagePath options stand in the list,    *)
(* once the call has returned.                                              *)
C14_PatternOptionOverrides ==
    (~crashed /\ OptionsOfType("PackagePattern") # {})
    => handed = options[LastOf(OptionsOfType("PackagePattern"))].Data


-----------------------------------------------------------------------------
(* The fallback of a nil language argument.                                 *)

\* A call of InitI18nWithOptions without a language, with the options the
\* state records, on a host that reports the locale.
InitWithoutLang(d, systemLocale) ==
    bundle = NilBundle /\ InitI18nWithOptionsOn(NIL, options', d, systemLocale)

Loadable(d, tag) ==
    LET list == [i \in 1..Len(d.files) |-> LangObj(d.files[i], "listed")]
        m    == FirstMatch(list, tag)
    IN  ~d.err /\ Len(d.files) > 0 /\ (m # 0 => Decodable(d.files[m]))

-----------------------------------------------------------------------------
(* A discovery that fails.                                                  *)

\* packageListFunc returns an error.
DiscoveryError == [err |-> TRUE, files |-> <<>>]

(* C20: when discovery returns an error, InitI18nWithOptions returns a      *)
(* non-nil error to its caller and leaves Languages and Language as they    *)
(* were.                                                                    *)
C20_DiscoveryErrorIsReturned ==
    [][\A lang \in RequestedLangs, opts \in SinkOptions :
          InitI18nWithOptions(lang, opts, DiscoveryError)
          => /\ ~crashed'
             /\ ret'.op = "InitI18nWithOptions" /\ ret'.err
             /\ Languages' = Languages /\ Language' = Language]_vars


-----------------------------------------------------------------------------
(* What discovery returns.                                                  *)

\* The first line is a label with at least one tag, all of them tags the
\* parser accepts; a newline may or may not end it.
WellFormed(f) ==
    LET c == FileContent(f)
    IN  /\ c.opens /\ c.top.label /\ Len(c.top.tags) > 0
        /\ \A i \in 1..Len(c.top.tags) : ParsableTag(c.top.tags[i].tag)

\* The first line is no label.
Unlabelled(f) == FileContent(f).opens /\ ~FileContent(f).top.label

\* The first line is a label whose tag string gives no tag.
Untagged(f) ==
    LET c == FileContent(f)
    IN  /\ c.opens /\ c.top.label
        /\ \/ Len(c.top.tags) = 0
           \/ \E i \in 1..Len(c.top.tags) : ~ParsableTag(c.top.tags[i].tag)

\* The descriptor of a well-formed file: the first tag and the name of
\* its label.
Descriptor(f) ==
    Lang(FileContent(f).top.name, FileContent(f).top.tags[1].tag, f)

\* PackageListByPatternFunc was called with a pattern that resolves.
Discovered == found.op = "PackageListByPatternFunc" /\ handed = "lang/*.lang"

\* The files of the descriptors returned.
FoundFiles == [i \in 1..Len(found.langs) |-> found.langs[i].FileName]

(* C17: when every file the pattern matches starts with a well-formed       *)
(* label (the label line may be all there is, with or without a newline     *)
(* after it), PackageListByPatternFunc returns one descriptor per file, in  *)
(* match order, with the first tag and the name of the file's label.        *)
C17_OneDescriptorPerWellFormedFile ==
    (Discovered /\ \A i \in 1..Len(matched) : WellFormed(matched[i]))
    => /\ ~crashed /\ ~found.err
       /\ found.langs = [i \in 1..Len(matched) |-> Descriptor(matched[i])]

(* C18: with an error sink that returns, PackageListByPatternFunc leaves    *)
(* out the files whose first line is no label, goes on with the files       *)
(* after them, and returns the descriptors of the well-formed files with a  *)
(* nil error.                                                               *)
C18_UnlabelledFilesAreSkipped ==
    ( /\ Discovered /\ logErrorFunc = "custom"
      /\ \E i \in 1..Len(matched) : Unlabelled(matched[i])
      /\ \A i \in 1..Len(matched) :
            Unlabelled(matched[i]) \/ WellFormed(matched[i]) )
    => /\ ~crashed /\ ~found.err
       /\ FoundFiles = SelectSeq(matched, WellFormed)

(* C19: for a package whose label gives no parsable tag, ReadLangFromFileName *)
(* and ReadLangFromBytes return no descriptor, and PackageListByPatternFunc *)
(* goes on with the other files (here: with an error sink that returns,     *)
(* the other files well-formed and ending their label line with a newline). *)
C19_UntaggedPackageIsRejected ==
    /\ ( /\ found.op \in {"ReadLangFromFileName", "ReadLangFromBytes"}
         /\ logErrorFunc = "custom"
         /\ Untagged(matched[1]) )
       => (~crashed /\ found.langs = <<>>)
    /\ ( /\ Discovered /\ logErrorFunc = "custom"
         /\ \E i \in 1..Len(matched) : Untagged(matched[i])
         /\ \A i \in 1..Len(matched) :
               \/ Untagged(matched[i])
               \/ WellFormed(matched[i]) /\ FileContent(matched[i]).newline )
       => /\ ~crashed /\ ~found.err
          /\ FoundFiles = SelectSeq(matched, WellFormed)


-----------------------------------------------------------------------------
(* The registry over switches.                                              *)

\* The entries of the registry, among the keys, that TCDataCallback
\* subscribed for the callback.
DerivedEntries(keys, callback) ==
    {k \in keys \cap DOMAIN callbackDataMap :
        callbackDataMap[k].notOrigin /\ callbackDataMap[k].Callback = callback}

(* C21: a successful SwitchLanguage leaves the registry with as many        *)
(* entries of a TCDataCallback subscription as it had when the switch       *)
(* started: the closure's re-subscription adds none.                        *)
C21_ResubscriptionIsIdempotent ==
    LoopOver =>
        \A k \in startKeys :
            callbackDataMap[k].notOrigin =>
                Cardinality(DerivedEntries(DOMAIN callbackDataMap,
                                           callbackDataMap[k].Callback))
                = Cardinality(DerivedEntries(startKeys, callbackDataMap[k].Callback))


(* C22: AddSwitchCallback(e) for an entry whose CallbackId is a key of the  *)
(* registry inserts nothing, and logs an error exactly when e itself is     *)
(* not derived, whatever the flag of the entry stored under that key.       *)
C22_DuplicateLogsByIncomingFlag ==
    [][\A e \in UserEntries :
          (AddSwitchCallbackExists(e) /\ AddSwitchCallbackCall(e)) =>
              /\ callbackDataMap' = callbackDataMap
              /\ (crashed' \/ ret'.logged) <=> ~e.notOrigin]_vars


-----------------------------------------------------------------------------
(* Language and Localizer.                                                  *)

(* C23: in every state the calls of InitI18nWithOptions, UseLanguage,       *)
(* LoadLanguage and SwitchLanguage lead to (failed loads included), a       *)
(* non-nil Language comes with a non-nil Localizer made for the tag of      *)
(* Language from the current bundle.                                        *)
C23_LocalizerFollowsLanguage ==
    (~crashed /\ Language # NilLang) =>
        /\ Localizer # NilLocalizer
        /\ Localizer.current
        /\ Localizer.tag = LabelTag(Language.file)


-----------------------------------------------------------------------------
(* The registry ids.                                                        *)

\* The registry with the entry stored under the key.
Stored(k, data) ==
    [j \in DOMAIN callbackDataMap \cup {k} |->
        IF j = k THEN data ELSE callbackDataMap[j]]

(* C24: an AddSwitchCallback call of a single-threaded sequence either      *)
(* leaves the registry as it is or stores its entry under an id that is no  *)
(* key of the registry, and so was never used (no entry is ever removed):   *)
(* no entry is overwritten, also when the counter wraps around.             *)
C24_InsertUnderUnusedId ==
    [][\A data \in WrapEntries :
          AddSwitchCallbackRun(data) =>
              \/ callbackDataMap' = callbackDataMap
              \/ \E k \in (0..(UINT32_MOD - 1)) \ DOMAIN callbackDataMap :
                    callbackDataMap' = Stored(k, data)]_vars

\* The counter has wrapped around: every id is a key of the registry, the
\* last entry went under id 0, and a call after it was turned down.
C24_Witness ==
    /\ ~crashed
    /\ DOMAIN callbackDataMap = 0..(UINT32_MOD - 1)
    /\ currentCallbackDataId = 0
    /\ ret = Returned("AddSwitchCallback", FALSE, "", TRUE)


-----------------------------------------------------------------------------
(* The pattern and the decoder.                                             *)

\* bundle.RegisterUnmarshalFunc(format, unmarshalFunc): the suffix the
\* decoder is registered for by the last call.
RegisteredFormat == OptionLoop(DefaultConfig, options).format

\* The pattern is <dir>/*.<format> for one of the directories in use.
HasExtension(pattern, format) ==
    \E dir \in {"lang"} \cup {o.Data : o \in OptionValues} :
        pattern = JoinPattern(dir, format)

(* C26: after InitI18nWithOptions without a PackagePattern option, the      *)
(* extension of the pattern handed to discovery is the suffix the decoder   *)
(* is registered for, whatever PackageSuffix and PackagePath options were   *)
(* given and in whatever order.                                             *)
C26_PatternExtensionIsDecoderSuffix ==
    (~crashed /\ handed # NIL /\ OptionsOfType("PackagePattern") = {})
    => HasExtension(handed, RegisteredFormat)


-----------------------------------------------------------------------------
(* The fallback of InitI18nWithConfig.                                      *)

(* C27: InitI18nWithConfig (and InitI18n) called with a nil language, in    *)
(* any state, a fresh process included, records Simplified Chinese as       *)
(* DefaultLang and goes on to discovery with the pattern.                   *)
C27_ConfigFallsBackToChinese ==
    [][\A arg \in ConfigSinks, d \in DiscoveryOutcomes :
          InitI18nWithConfig(NIL, arg, d) =>
              /\ DefaultLang' = SimplifiedChinese
              /\ handed' = JoinPattern("lang", "lang")]_vars


-----------------------------------------------------------------------------
(* Termination of the notification loop.                                    *)

(* C25: every SwitchLanguage call whose load succeeded and whose callbacks  *)
(* each return does return, also when the closures of TCDataCallback        *)
(* insert entries while the loop runs: a loop that has started is followed  *)
(* by the return of the call.                                               *)
C25_SwitchLanguageReturns ==
    (pc = "notify" /\ ~crashed) ~> (pc = "idle" \/ crashed)

\* SwitchLanguage has returned from a loop that inserted entries: the
\* registry is larger than subscriptions alone make it.
C25_Witness ==
    /\ pc = "idle" /\ ~crashed
    /\ ret = Returned("SwitchLanguage", FALSE, "", FALSE)
    /\ Cardinality(DOMAIN callbackDataMap) > MaxEntries

=============================================================================
